---- MODULE Spec2Model ----
(***************************************************************************)
(* Model of bucket-common-types: the secret share link                     *)
(* (src/src/secret_share_link.rs), the permission flags and the plain      *)
(* share link (src/src/share_link.rs).                                     *)
(*                                                                         *)
(* Values.  A byte string is a sequence.  Bytes that the code computes     *)
(* arithmetically (the permission bits, the serialized expiry) are         *)
(* numbers 0..255; the output of the library's cryptographic primitives    *)
(* (SHA3-224, Ed25519) is symbolic: the digest of preimage p is a sequence *)
(* of its real length whose first byte is the term <<1, p>> and whose      *)
(* byte i > 1 is the place holder <<i>>, so the hash is deterministic and  *)
(* two digests, or two prefixes of digests, are equal exactly when the     *)
(* preimages are.  The bytes of a signature are symbolic in the same way.  *)
(* An Option is a sequence of length 0 or 1.                               *)
(* A Rust Result or a panic is a record [kind, err, line, val].            *)
(***************************************************************************)
EXTENDS Integers, Sequences, FiniteSets

VARIABLES
    link,     \* Option<SecretShareLink>: the link value at hand
    orig,     \* Option<SecretShareLink>: the link before one field was changed
    url,      \* Option<url::Url>: the Url at hand
    urlKind,  \* how that Url was made: [host, shape]
    text,     \* the String the last to_string returned
    op,       \* the last operation called
    arg,      \* its arguments
    result,   \* what it returned, or its panic
    hashed,   \* the bytes its hasher absorbed
    first,    \* Option: the result of the preceding call of new, when that
              \* call had the same arguments as the last one
    share     \* Option<ShareLink>: the plain share link at hand

vars == <<link, orig, url, urlKind, text, op, arg, result, hashed, first, share>>

-----------------------------------------------------------------------------
(* Bounds of the explored inputs. *)
NumIds == 2
NumKeys == 2
NumTimes == 2
NumKeyPairs == 2
NumTokens == 2

(* Program constants. *)
UuidLen == 16
KeyLen == 32
PermLen == 4
DigestLen == 28
HashOutputLen == 64
TokenLen == 32
NoiseLen == 16
SigLen == 64
BincodeLen == 16

VIEW == 1
READ == 2
WRITE == 4
DELETE_FILE == 8
DELETE_BUCKET == 16
SHARE_BUCKET == 32
CLONE == 64
SEARCH == 128

-----------------------------------------------------------------------------
(* Results. *)
None == <<>>
Some(x) == <<x>>

Ok(v) == [kind |-> "Ok", err |-> "", line |-> 0, val |-> v]
Err(e, l) == [kind |-> "Err", err |-> e, line |-> l, val |-> <<>>]
Panic(e, l) == [kind |-> "Panic", err |-> e, line |-> l, val |-> <<>>]
NoResult == [kind |-> "None", err |-> "", line |-> 0, val |-> <<>>]

Rep(n, b) == [i \in 1..n |-> b]

-----------------------------------------------------------------------------
(* Input domains. *)
Uuid(n) == Rep(UuidLen, n)
Uuids == {Uuid(n) : n \in 1..NumIds}

Key(n) == Rep(KeyLen, n)
Keys == {Key(n) : n \in 0..(NumKeys - 1)}

Times == 1..NumTimes
Expiries == {None} \cup {Some(t) : t \in Times}

SecretKeys == 1..NumKeyPairs
PublicKeyOf(sk) == sk
PublicKeys == {PublicKeyOf(sk) : sk \in SecretKeys}

-----------------------------------------------------------------------------
(* BucketSharePermissionFlags (bitflags over u32). *)
FlagBits == {VIEW, READ, WRITE, DELETE_FILE, DELETE_BUCKET, SHARE_BUCKET, CLONE, SEARCH}

RECURSIVE SumOf(_)
SumOf(S) == IF S = {} THEN 0 ELSE LET x == CHOOSE y \in S : TRUE IN x + SumOf(S \ {x})

(* bits of all defined flags *)
AllBits == SumOf(FlagBits)

(* bitwise AND of two naturals *)
RECURSIVE BitAnd(_, _)
BitAnd(a, b) ==
    IF a = 0 \/ b = 0 THEN 0
    ELSE (a % 2) * (b % 2) + 2 * BitAnd(a \div 2, b \div 2)

(* from_bits, as bitflags generates it: None when a bit outside the defined *)
(* flags is set, else the flags with exactly these bits.                    *)
from_bits(bits) ==
    IF BitAnd(bits, AllBits) = bits THEN Some(bits) ELSE None

(* u32::to_be_bytes and u32::from_be_bytes *)
to_be_bytes(n) ==
    << (n \div 16777216) % 256, (n \div 65536) % 256, (n \div 256) % 256, n % 256 >>

from_be_bytes(b) == b[1] * 16777216 + b[2] * 65536 + b[3] * 256 + b[4]

(* The permission values links are built with. *)
Permissions == {VIEW, VIEW + READ, AllBits}

-----------------------------------------------------------------------------
(* bincode::serialize of an OffsetDateTime: the time crate's compact form   *)
(* (year i32, ordinal u16, hour, minute, second u8, nanosecond u32, offset  *)
(* hours, minutes, seconds i8), fixed-width little-endian: 16 bytes.  Time  *)
(* t of the model is day 1 of year 2000 + t, midnight UTC.                  *)
Serialize(t) ==
    << (2000 + t) % 256, (2000 + t) \div 256, 0, 0, 1, 0 >> \o Rep(BincodeLen - 6, 0)

(* bincode::deserialize: an Option, None when the bytes are no timestamp.   *)
Deserialize(b) ==
    IF Len(b) >= BincodeLen /\ \E t \in Times : SubSeq(b, 1, BincodeLen) = Serialize(t)
    THEN Some(CHOOSE t \in Times : SubSeq(b, 1, BincodeLen) = Serialize(t))
    ELSE None

-----------------------------------------------------------------------------
(* The library's primitives, symbolic. *)
Sha3_224(pre) == [i \in 1..DigestLen |-> IF i = 1 THEN <<i, pre>> ELSE <<i>>]

(* ed25519_compact: Noise::from_slice, SecretKey::sign, PublicKey::verify *)
NoiseFromSlice(b) == IF Len(b) = NoiseLen THEN Some(b) ELSE None

Sign(sk, msg, noise) == [signer |-> sk, msg |-> msg, noise |-> noise]

Forged == [signer |-> 0, msg |-> <<>>, noise |-> <<>>]

Verify(pk, msg, sig) ==
    /\ sig.signer # 0
    /\ PublicKeyOf(sig.signer) = pk
    /\ Len(sig.msg) = Len(msg)
    /\ sig.msg = msg

-----------------------------------------------------------------------------
(* hash_secret_share_link *)
PreimageNoExpiry(user_id, bucket_id, bucket_key, permission, expires) ==
    user_id \o bucket_id \o bucket_key \o to_be_bytes(permission)

(* the bytes the hasher is updated with, in order *)
Preimage(user_id, bucket_id, bucket_key, permission, expires) ==
    user_id \o bucket_id \o bucket_key \o to_be_bytes(permission)
        \o (IF expires # None THEN Serialize(expires[1]) ELSE <<>>)

(* output.copy_from_slice(src): panics unless the two lengths are equal *)
copy_from_slice(output, src) ==
    IF Len(output) # Len(src)
    THEN Panic("copy_from_slice: source slice length does not match destination", 38)
    ELSE Ok(src)

(* Returns what the hasher absorbed and the outcome of the copy. *)
hash_secret_share_link(user_id, bucket_id, bucket_key, permission, expires, output) ==
    LET pre == Preimage(user_id, bucket_id, bucket_key, permission, expires)
    IN  [preimage |-> pre, out |-> copy_from_slice(output, Sha3_224(pre))]

-----------------------------------------------------------------------------
(* SecretShareLink *)
Link(u, b, k, p, e, s) ==
    [user_id |-> u, bucket_id |-> b, bucket_key |-> k, permission |-> p,
     expires |-> e, signature |-> s]

(* Each of the three operations below returns [res, hashed]: its result    *)
(* and the bytes its hasher absorbed.                                       *)

(* SecretShareLink::new *)
new(user_id, bucket_id, bucket_key, permission, expires, secret_key) ==
    LET h == hash_secret_share_link(user_id, bucket_id, bucket_key, permission,
                                    expires, Rep(HashOutputLen, 0))
        noise == NoiseFromSlice(bucket_id)
    IN  [hashed |-> h.preimage,
         res |-> IF h.out.kind # "Ok" THEN h.out
                 ELSE IF noise = None THEN Panic("unwrap on Err", 177)
                 ELSE Ok(Link(user_id, bucket_id, bucket_key, permission, expires,
                              Sign(secret_key, h.out.val, noise[1])))]

(* SecretShareLink::verify_signature *)
verify_signature(self, public_signing_key) ==
    LET h == hash_secret_share_link(self.user_id, self.bucket_id, self.bucket_key,
                                    self.permission, self.expires, Rep(HashOutputLen, 0))
    IN  [hashed |-> h.preimage,
         res |-> IF h.out.kind # "Ok" THEN h.out
                 ELSE IF Verify(public_signing_key, h.out.val, self.signature)
                      THEN Ok(<<>>)
                 ELSE Err("InvalidSignature", 164)]

(* SecretShareLink::get_token *)
get_token(self) ==
    LET h == hash_secret_share_link(self.user_id, self.bucket_id, self.bucket_key,
                                    self.permission, self.expires, Rep(HashOutputLen, 0))
    IN  [hashed |-> h.preimage,
         res |-> IF h.out.kind # "Ok" THEN h.out
                 ELSE Ok(SubSeq(h.out.val, 1, TokenLen))]

-----------------------------------------------------------------------------
(* Text.  A string is a sequence of tokens [kind, data]: the separators     *)
(* "/", "#" and "://", and runs of other characters: plain text ("txt"),    *)
(* the hyphenated text of a UUID ("uuid", data: its 16 bytes), the          *)
(* URL_SAFE_NO_PAD base64 text of a byte string ("b64", data: the bytes)    *)
(* and text that is no base64 ("bad").                                      *)
Sep(c) == [kind |-> c, data |-> <<>>]
Txt(t) == [kind |-> "txt", data |-> <<t>>]
UuidText(u) == [kind |-> "uuid", data |-> u]
Base64Encode(b) == [kind |-> "b64", data |-> b]
BadText == [kind |-> "bad", data |-> <<>>]

(* general_purpose::URL_SAFE_NO_PAD.decode of a string: None on an error *)
Base64Decode(str) ==
    IF Len(str) = 0 THEN Some(<<>>)
    ELSE IF Len(str) = 1 /\ str[1].kind = "b64" THEN Some(str[1].data)
    ELSE None

(* str::parse::<uuid::Uuid>: None on an error *)
ParseUuid(str) ==
    IF Len(str) = 1 /\ str[1].kind = "uuid" /\ Len(str[1].data) = UuidLen
    THEN Some(str[1].data)
    ELSE None

(* str::split(c): the pieces between the separators c, at least one *)
RECURSIVE SplitFrom(_, _, _, _)
SplitFrom(str, c, i, cur) ==
    IF i > Len(str) THEN <<cur>>
    ELSE IF str[i].kind = c THEN <<cur>> \o SplitFrom(str, c, i + 1, <<>>)
    ELSE SplitFrom(str, c, i + 1, Append(cur, str[i]))

Split(str, c) == SplitFrom(str, c, 1, <<>>)

(* Iterator::take(n) then collect *)
Take(seq, n) == SubSeq(seq, 1, IF Len(seq) < n THEN Len(seq) ELSE n)

(* the position of the first token of kind c, 0 when there is none *)
RECURSIVE FindFrom(_, _, _)
FindFrom(str, c, i) ==
    IF i > Len(str) THEN 0
    ELSE IF str[i].kind = c THEN i
    ELSE FindFrom(str, c, i + 1)

(* ed25519_compact::Signature as_slice / from_slice (64 bytes) *)
SigBytes(sig) == [i \in 1..SigLen |-> IF i = 1 THEN <<i, sig>> ELSE <<i>>]

SigFromSlice(b) == IF Len(b) = SigLen THEN Some(b[1][2]) ELSE None

-----------------------------------------------------------------------------
(* util.rs: the configured domain and the path prefix of secret share links *)
DomainName == "bucketdrive.co"
DOMAIN_URL == <<Txt(DomainName)>>
SECRET_SHARE_PATH_URL ==
    <<Sep("/"), Txt("api"), Sep("/"), Txt("v1"), Sep("/"), Txt("secret_share")>>

-----------------------------------------------------------------------------
(* url::Url: [scheme, host, path, fragment]; host is an Option of           *)
(* [domain, name] (domain: a DNS name, not an IP address), fragment an      *)
(* Option of a string.                                                      *)
Url(scheme, host, path, fragment) ==
    [scheme |-> scheme, host |-> host, path |-> path, fragment |-> fragment]

(* Url::parse: an absolute URL needs "scheme://"; the path ends at the     *)
(* first "#" and the fragment is all that follows it.                      *)
UrlParse(str) ==
    IF ~(Len(str) >= 3 /\ str[1].kind = "txt" /\ str[2].kind = "://"
         /\ str[3].kind = "txt")
    THEN Err("RelativeUrlWithoutBase", 0)
    ELSE LET h == FindFrom(str, "#", 4)
             last == IF h = 0 THEN Len(str) ELSE h - 1
             p == SubSeq(str, 4, last)
         IN  Ok(Url(str[1].data[1],
                    Some([domain |-> TRUE, name |-> str[3].data[1]]),
                    IF p = <<>> THEN <<Sep("/")>> ELSE p,
                    IF h = 0 THEN None ELSE Some(SubSeq(str, h + 1, Len(str)))))

(* Url::domain *)
UrlDomain(value) ==
    IF value.host # None /\ value.host[1].domain THEN Some(value.host[1].name) ELSE None

(* &str == DOMAIN_URL *)
IsDomainUrl(name) ==
    /\ Len(DOMAIN_URL) = 1
    /\ DOMAIN_URL[1].kind = "txt"
    /\ DOMAIN_URL[1].data[1] = name

-----------------------------------------------------------------------------
(* impl to_string for SecretShareLink *)
to_string_no_expiry(self) ==
    DOMAIN_URL \o SECRET_SHARE_PATH_URL
        \o <<Sep("/"), UuidText(self.user_id), Sep("/"), UuidText(self.bucket_id),
             Sep("#"), Base64Encode(self.bucket_key),
             Sep("#"), Base64Encode(to_be_bytes(self.permission)),
             Sep("#"), Base64Encode(SigBytes(self.signature))>>

to_string_expiry_last(self) ==
    IF self.expires # None
    THEN DOMAIN_URL \o SECRET_SHARE_PATH_URL
        \o <<Sep("/"), UuidText(self.user_id), Sep("/"), UuidText(self.bucket_id),
             Sep("#"), Base64Encode(self.bucket_key),
             Sep("#"), Base64Encode(to_be_bytes(self.permission)),
             Sep("#"), Base64Encode(SigBytes(self.signature)),
             Sep("#"), Base64Encode(Serialize(self.expires[1]))>>
    ELSE to_string_no_expiry(self)

to_string(self) ==
    IF self.expires # None
    THEN DOMAIN_URL \o SECRET_SHARE_PATH_URL
        \o <<Sep("/"), UuidText(self.user_id), Sep("/"), UuidText(self.bucket_id),
             Sep("#"), Base64Encode(self.bucket_key),
             Sep("#"), Base64Encode(to_be_bytes(self.permission)),
             Sep("#"), Base64Encode(Serialize(self.expires[1])),
             Sep("#"), Base64Encode(SigBytes(self.signature))>>
    ELSE DOMAIN_URL \o SECRET_SHARE_PATH_URL
        \o <<Sep("/"), UuidText(self.user_id), Sep("/"), UuidText(self.bucket_id),
             Sep("#"), Base64Encode(self.bucket_key),
             Sep("#"), Base64Encode(to_be_bytes(self.permission)),
             Sep("#"), Base64Encode(SigBytes(self.signature))>>

(* impl try_into<url::Url> for SecretShareLink *)
try_into(self) ==
    LET r == UrlParse(to_string(self))
    IN  IF r.kind = "Ok" THEN r ELSE Panic("unwrap on Err", 212)

-----------------------------------------------------------------------------
(* impl TryFrom<url::Url> for SecretShareLink *)

(* lines 99-146: the components of parts[3] *)
parse_fragments(user_id, bucket_id, fragments) ==
    IF Len(fragments) < 2 THEN Panic("index out of bounds", 102)
    ELSE LET key == Base64Decode(fragments[2]) IN
    IF key = None THEN Panic("unwrap on Err", 103)
    ELSE IF Len(key[1]) # KeyLen THEN Panic("from_slice: length mismatch", 100)
    ELSE IF Len(fragments) < 3 THEN Panic("index out of bounds", 108)
    ELSE LET perm == Base64Decode(fragments[3]) IN
    IF perm = None THEN Panic("unwrap on Err", 109)
    ELSE IF Len(perm[1]) # PermLen THEN Panic("unwrap on Err", 111)
    ELSE LET permission == from_bits(from_be_bytes(perm[1])) IN
    IF permission = None THEN Panic("unwrap on None", 113)
    ELSE LET has_expires_field == Len(fragments) = 4
             exp == IF has_expires_field THEN Base64Decode(fragments[4]) ELSE None
             expires == IF has_expires_field /\ exp # None
                        THEN Deserialize(exp[1]) ELSE None
             signature_index == IF has_expires_field THEN 5 ELSE 5 - 1
         IN
    IF has_expires_field /\ exp = None THEN Panic("unwrap on Err", 120)
    ELSE IF has_expires_field /\ expires = None THEN Panic("unwrap on Err", 123)
    ELSE IF Len(fragments) < signature_index + 1
         THEN Panic("index out of bounds", 133)
    ELSE LET sigb == Base64Decode(fragments[signature_index + 1]) IN
    IF sigb = None THEN Panic("unwrap on Err", 134)
    ELSE IF SigFromSlice(sigb[1]) = None THEN Panic("unwrap on Err", 137)
    ELSE Ok(Link(user_id, bucket_id, key[1], permission[1], expires,
                 SigFromSlice(sigb[1])[1]))

(* lines 95-146: what follows the host check *)
parse_path(value) ==
    LET parts == Take(Split(value.path, "/"), 1) IN
    IF Len(parts) < 1 THEN Panic("index out of bounds", 97)
    ELSE IF ParseUuid(parts[1]) = None THEN Panic("unwrap on Err", 97)
    ELSE IF Len(parts) < 2 THEN Panic("index out of bounds", 98)
    ELSE IF ParseUuid(parts[2]) = None THEN Panic("unwrap on Err", 98)
    ELSE IF Len(parts) < 4 THEN Panic("index out of bounds", 99)
    ELSE parse_fragments(ParseUuid(parts[1])[1], ParseUuid(parts[2])[1],
                         Take(Split(parts[4], "#"), 1))

try_from_host_last(value) ==
    LET r == parse_path(value)
        domain == UrlDomain(value)
    IN  IF r.kind # "Ok" THEN r
        ELSE IF domain = None THEN Err("InvalidHostDomain", 91)
        ELSE IF ~IsDomainUrl(domain[1]) THEN Err("InvalidHostDomain", 93)
        ELSE r

try_from(value) ==
    LET domain == UrlDomain(value) IN
    IF domain = None THEN Err("InvalidHostDomain", 91)
    ELSE IF ~IsDomainUrl(domain[1]) THEN Err("InvalidHostDomain", 93)
    ELSE parse_path(value)

-----------------------------------------------------------------------------
(* The Urls handed to try_from from outside.  A well-formed one follows the *)
(* documented grammar,                                                      *)
(*   scheme://domain/prefix/user_id/bucket_id#key#permissions[#expiry]#sig, *)
(* for the fields of a link; the others differ from it in one way.          *)
HostChoices == {"domain", "other", "ip", "none"}
Shapes == {"wellformed", "corrupt_base64", "wrong_length", "missing_segment",
           "missing_fragment", "unknown_flags"}

HostOf(h) ==
    CASE h = "domain" -> Some([domain |-> TRUE, name |-> DomainName])
      [] h = "other" -> Some([domain |-> TRUE, name |-> "evil.example"])
      [] h = "ip" -> Some([domain |-> FALSE, name |-> "127.0.0.1"])
      [] OTHER -> None

(* a bit outside the eight defined flags *)
UnknownBit == 2 * SEARCH

FragmentOf(l, shape) ==
    <<IF shape = "corrupt_base64" THEN BadText
      ELSE IF shape = "wrong_length"
           THEN Base64Encode(SubSeq(l.bucket_key, 1, KeyLen - 1))
      ELSE Base64Encode(l.bucket_key),
      Sep("#"),
      Base64Encode(to_be_bytes(IF shape = "unknown_flags"
                               THEN l.permission + UnknownBit ELSE l.permission))>>
    \o (IF l.expires # None
        THEN <<Sep("#"), Base64Encode(Serialize(l.expires[1]))>> ELSE <<>>)
    \o <<Sep("#"), Base64Encode(SigBytes(l.signature))>>

CraftedUrl(l, h, shape) ==
    Url("https", HostOf(h),
        SECRET_SHARE_PATH_URL \o <<Sep("/"), UuidText(l.user_id)>>
            \o (IF shape = "missing_segment" THEN <<>>
                ELSE <<Sep("/"), UuidText(l.bucket_id)>>),
        IF shape = "missing_fragment" THEN None ELSE Some(FragmentOf(l, shape)))

(* The signature a conforming issuer holding sk puts on the fields: over    *)
(* the SHA3-224 digest of the preimage, with the bucket id as noise.        *)
IssuerSignature(u, b, k, p, e, sk) ==
    Sign(sk, Sha3_224(Preimage(u, b, k, p, e)), b)

(* the u32 values from_bits is called with *)
BitPatterns == Permissions \cup {0, UnknownBit, UnknownBit + VIEW, 1073741824 + READ}

-----------------------------------------------------------------------------
(* ShareLink: the plain share link, a bare 32-byte random token. *)
ShareLinkOf(token) == [token |-> token]

(* the values rand::random::<[u8; 32]>() can return *)
Tokens == {Rep(TokenLen, n) : n \in 0..(NumTokens - 1)}

(* the path prefix of plain share links *)
SHARE_PATH_URL == <<Sep("/"), Txt("api"), Sep("/"), Txt("v1")>>

(* impl to_string for ShareLink *)
ShareLink_to_string(self) ==
    DOMAIN_URL \o SHARE_PATH_URL
        \o <<Sep("/"), Txt("share"), Sep("/"), Base64Encode(self.token)>>

(* impl try_into<url::Url> for ShareLink: the Result of Url::parse *)
ShareLink_try_into(self) == UrlParse(ShareLink_to_string(self))

(* impl TryFrom<url::Url> for ShareLink *)
ShareLink_try_from(value) ==
    LET parts == Take(Split(value.path, "/"), 1) IN
    IF Len(parts) < 2 THEN Panic("index out of bounds", 59)
    ELSE LET token == Base64Decode(parts[2]) IN
    IF token = None THEN Panic("unwrap on Err", 59)
    ELSE IF Len(token[1]) # TokenLen THEN Panic("unwrap on Err", 62)
    ELSE Ok(ShareLinkOf(token[1]))

(* ShareLink::get_token *)
ShareLink_get_token(self) == self.token

(* The Urls of a plain share link handed to try_from from outside:          *)
(* scheme://host/prefix/share/token as to_string lays it out, the token as  *)
(* the only path segment, and no segment at all.                            *)
ShareHosts == {"domain", "other"}
ShareShapes == {"wellformed", "token_first", "root"}

ShareUrl(l, h, shape) ==
    Url("https", HostOf(h),
        CASE shape = "wellformed" ->
                 SHARE_PATH_URL
                     \o <<Sep("/"), Txt("share"), Sep("/"), Base64Encode(l.token)>>
          [] shape = "token_first" -> <<Sep("/"), Base64Encode(l.token)>>
          [] OTHER -> <<Sep("/")>>,
        None)

-----------------------------------------------------------------------------
NoArg == [name |-> "none"]
NoKind == [host |-> "", shape |-> ""]

Init ==
    /\ link = None
    /\ share = None
    /\ orig = None
    /\ url = None
    /\ urlKind = NoKind
    /\ text = <<>>
    /\ op = "init"
    /\ arg = NoArg
    /\ result = NoResult
    /\ hashed = <<>>
    /\ first = None

(* SecretShareLink::new(user_id, bucket_id, bucket_key, permission, expires, *)
(* &secret_key)                                                              *)
New(u, b, k, p, e, sk) ==
    LET r == new(u, b, k, p, e, sk)
    IN  /\ link = None
        /\ op = "init"
        /\ op' = "new"
        /\ arg' = [name |-> "new", user_id |-> u, bucket_id |-> b, bucket_key |-> k,
                   permission |-> p, expires |-> e, secret_key |-> sk]
        /\ result' = r.res
        /\ hashed' = r.hashed
        /\ link' = IF r.res.kind = "Ok" THEN Some(r.res.val) ELSE link
        /\ UNCHANGED <<share, orig, url, urlKind, text, first>>

(* new is called once more, with the arguments of the call before. *)
NewAgain ==
    LET r == new(arg.user_id, arg.bucket_id, arg.bucket_key, arg.permission,
                 arg.expires, arg.secret_key)
    IN  /\ op = "new"
        /\ first = None
        /\ first' = Some(result)
        /\ result' = r.res
        /\ hashed' = r.hashed
        /\ UNCHANGED <<share, link, orig, url, urlKind, text, op, arg>>

(* A link value written as a struct literal (all fields are pub), signed by *)
(* an issuer (sk in SecretKeys) or carrying a signature of no key (sk = 0). *)
Literal(u, b, k, p, e, sk) ==
    /\ link = None
    /\ op = "init"
    /\ link' = Some(Link(u, b, k, p, e,
                         IF sk = 0 THEN Forged ELSE IssuerSignature(u, b, k, p, e, sk)))
    /\ op' = "literal"
    /\ arg' = [name |-> "literal", secret_key |-> sk]
    /\ result' = NoResult
    /\ UNCHANGED <<share, orig, url, urlKind, text, hashed, first>>

(* One pub field of the link is assigned another value; the signature stays. *)
Tamper(field, v) ==
    /\ link # None
    /\ orig = None
    /\ op = "literal"
    /\ link[1][field] # v
    /\ orig' = link
    /\ link' = Some([link[1] EXCEPT ![field] = v])
    /\ op' = "tamper"
    /\ arg' = [name |-> "tamper", field |-> field]
    /\ UNCHANGED <<share, url, urlKind, text, result, hashed, first>>

TamperAny ==
    \/ \E v \in Uuids : Tamper("user_id", v)
    \/ \E v \in Uuids : Tamper("bucket_id", v)
    \/ \E v \in Keys : Tamper("bucket_key", v)
    \/ \E f \in FlagBits :
           /\ link # None
           /\ LET p == link[1].permission
                  q == IF BitAnd(p, f) = f THEN p - f ELSE p + f
              IN  Tamper("permission", q)
    \/ \E v \in Expiries : Tamper("expires", v)

(* link.verify_signature(public_signing_key) *)
VerifySignature(pk) ==
    LET r == verify_signature(link[1], pk)
    IN  /\ link # None
        /\ op \in {"new", "literal", "tamper"}
        /\ op' = "verify_signature"
        /\ arg' = [name |-> "verify_signature", public_signing_key |-> pk]
        /\ result' = r.res
        /\ hashed' = r.hashed
        /\ UNCHANGED <<share, link, orig, url, urlKind, text, first>>

(* link.get_token() *)
GetToken ==
    LET r == get_token(link[1])
    IN  /\ link # None
        /\ op \in {"new", "literal", "tamper"}
        /\ op' = "get_token"
        /\ arg' = NoArg
        /\ result' = r.res
        /\ hashed' = r.hashed
        /\ UNCHANGED <<share, link, orig, url, urlKind, text, first>>

(* link.to_string() *)
ToStringCall ==
    /\ link # None
    /\ op \in {"new", "literal"}
    /\ op' = "to_string"
    /\ arg' = NoArg
    /\ text' = to_string(link[1])
    /\ result' = Ok(<<>>)
    /\ UNCHANGED <<share, link, orig, url, urlKind, hashed, first>>

(* let url: url::Url = link.try_into() *)
TryIntoCall ==
    LET r == try_into(link[1])
    IN  /\ link # None
        /\ op \in {"new", "literal"}
        /\ op' = "try_into"
        /\ arg' = NoArg
        /\ result' = r
        /\ url' = IF r.kind = "Ok" THEN Some(r.val) ELSE url
        /\ urlKind' = IF r.kind = "Ok" THEN [host |-> "domain", shape |-> "encoded"]
                      ELSE urlKind
        /\ UNCHANGED <<share, link, orig, text, hashed, first>>

(* A Url arrives from outside. *)
ReceiveUrl(h, shape) ==
    /\ link # None
    /\ op = "literal"
    /\ url' = Some(CraftedUrl(link[1], h, shape))
    /\ urlKind' = [host |-> h, shape |-> shape]
    /\ op' = "receive"
    /\ arg' = NoArg
    /\ UNCHANGED <<share, link, orig, text, result, hashed, first>>

(* SecretShareLink::try_from(url) *)
TryFromCall ==
    LET r == try_from(url[1])
    IN  /\ url # None
        /\ op \in {"receive", "try_into"}
        /\ op' = "try_from"
        /\ arg' = NoArg
        /\ result' = r
        /\ orig' = link
        /\ link' = IF r.kind = "Ok" THEN Some(r.val) ELSE link
        /\ UNCHANGED <<share, url, urlKind, text, hashed, first>>

(* BucketSharePermissionFlags::from_bits(bits) *)
FromBits(bits) ==
    /\ op = "init"
    /\ op' = "from_bits"
    /\ arg' = [name |-> "from_bits", bits |-> bits]
    /\ result' = Ok(from_bits(bits))
    /\ UNCHANGED <<share, link, orig, url, urlKind, text, hashed, first>>

(* let link = ShareLink::new() *)
ShareNew(token) ==
    /\ op = "init"
    /\ share' = Some(ShareLinkOf(token))
    /\ op' = "share_new"
    /\ arg' = NoArg
    /\ result' = Ok(ShareLinkOf(token))
    /\ UNCHANGED <<link, orig, url, urlKind, text, hashed, first>>

(* link.get_token() *)
ShareGetToken ==
    /\ share # None
    /\ op = "share_new"
    /\ op' = "share_get_token"
    /\ arg' = NoArg
    /\ result' = Ok(ShareLink_get_token(share[1]))
    /\ UNCHANGED <<link, orig, url, urlKind, text, hashed, first, share>>

(* link.to_string() *)
ShareToString ==
    /\ share # None
    /\ op = "share_new"
    /\ op' = "share_to_string"
    /\ arg' = NoArg
    /\ text' = ShareLink_to_string(share[1])
    /\ result' = Ok(<<>>)
    /\ UNCHANGED <<link, orig, url, urlKind, hashed, first, share>>

(* let url: Result<url::Url, _> = link.try_into() *)
ShareTryInto ==
    LET r == ShareLink_try_into(share[1])
    IN  /\ share # None
        /\ op = "share_new"
        /\ op' = "share_try_into"
        /\ arg' = NoArg
        /\ result' = r
        /\ url' = IF r.kind = "Ok" THEN Some(r.val) ELSE url
        /\ urlKind' = IF r.kind = "Ok" THEN [host |-> "domain", shape |-> "encoded"]
                      ELSE urlKind
        /\ UNCHANGED <<link, orig, text, hashed, first, share>>

(* A Url of the share link arrives from outside. *)
ShareReceiveUrl(h, shape) ==
    /\ share # None
    /\ op = "share_new"
    /\ url' = Some(ShareUrl(share[1], h, shape))
    /\ urlKind' = [host |-> h, shape |-> shape]
    /\ op' = "share_receive"
    /\ arg' = NoArg
    /\ UNCHANGED <<link, orig, text, result, hashed, first, share>>

(* ShareLink::try_from(url) *)
ShareTryFrom ==
    /\ url # None
    /\ op \in {"share_receive", "share_try_into"}
    /\ op' = "share_try_from"
    /\ arg' = NoArg
    /\ result' = ShareLink_try_from(url[1])
    /\ UNCHANGED <<link, orig, url, urlKind, text, hashed, first, share>>

Next ==
    \/ \E u \in Uuids, b \in Uuids, k \in Keys, p \in Permissions, e \in Expiries,
          sk \in SecretKeys : New(u, b, k, p, e, sk)
    \/ NewAgain
    \/ \E u \in Uuids, b \in Uuids, k \in Keys, p \in Permissions, e \in Expiries,
          sk \in {0} \cup SecretKeys : Literal(u, b, k, p, e, sk)
    \/ TamperAny
    \/ \E pk \in PublicKeys : VerifySignature(pk)
    \/ GetToken
    \/ ToStringCall
    \/ TryIntoCall
    \/ \E h \in HostChoices, shape \in Shapes : ReceiveUrl(h, shape)
    \/ TryFromCall
    \/ \E bits \in BitPatterns : FromBits(bits)
    \/ \E token \in Tokens : ShareNew(token)
    \/ ShareGetToken
    \/ ShareToString
    \/ ShareTryInto
    \/ \E h \in ShareHosts, shape \in ShareShapes : ShareReceiveUrl(h, shape)
    \/ ShareTryFrom

Spec == Init /\ [][Next]_vars

-----------------------------------------------------------------------------
(* Helpers of the properties. *)

(* the link carries the signature an issuer holding some key puts on its    *)
(* fields                                                                   *)
WellSigned(l) ==
    \E sk \in SecretKeys :
        l.signature = IssuerSignature(l.user_id, l.bucket_id, l.bucket_key,
                                      l.permission, l.expires, sk)

(* the string is the base64 text of exactly these bytes *)
IsBase64Of(str, bytes) ==
    /\ Len(str) = 1
    /\ str[1].kind = "b64"
    /\ Len(str[1].data) = Len(bytes)
    /\ str[1].data = bytes

HostIsConfiguredDomain(u) ==
    /\ u.host # None
    /\ u.host[1].domain
    /\ u.host[1].name = DomainName

IsInvalidHostDomain(r) == r.kind = "Err" /\ r.err = "InvalidHostDomain"

-----------------------------------------------------------------------------
(* C1: round trip.  new builds a link; converting a link that carries an    *)
(* issuer's signature to a url::Url succeeds; converting that Url back      *)
(* succeeds and yields the same user_id, bucket_id, bucket_key, permission, *)
(* presence of expires, and signature.                                      *)
C1_RoundTrip ==
    /\ op = "new" => result.kind = "Ok"
    /\ op = "try_into" /\ WellSigned(link[1]) => result.kind = "Ok"
    /\ op = "try_from" /\ urlKind.shape = "encoded" =>
           /\ result.kind = "Ok"
           /\ result.val.user_id = orig[1].user_id
           /\ result.val.bucket_id = orig[1].bucket_id
           /\ result.val.bucket_key = orig[1].bucket_key
           /\ result.val.permission = orig[1].permission
           /\ (result.val.expires = None) = (orig[1].expires = None)
           /\ result.val.signature = orig[1].signature

(* C2: new returns normally, and verify_signature on a link signed with sk  *)
(* returns Ok(()) for the public key paired with sk and                     *)
(* Err(InvalidSignature) for every other public key.                        *)
C2_SignThenVerify ==
    /\ op = "new" => result.kind = "Ok"
    /\ op = "verify_signature" /\ orig = None /\ WellSigned(link[1]) =>
           IF arg.public_signing_key = PublicKeyOf(link[1].signature.signer)
           THEN result.kind = "Ok"
           ELSE result.kind = "Err" /\ result.err = "InvalidSignature"

(* C3: signature binding.  When exactly one of user_id, bucket_id,          *)
(* bucket_key, one permission bit or expires of a signed link was changed   *)
(* and the signature kept, verify_signature with the signer's public key    *)
(* returns Err(InvalidSignature).                                           *)
C3_SignatureBinding ==
    op = "verify_signature" /\ orig # None /\ WellSigned(orig[1])
       /\ arg.public_signing_key = PublicKeyOf(orig[1].signature.signer)
    => result.kind = "Err" /\ result.err = "InvalidSignature"

(* C4: tamper rejection.  try_from of a Url with a corrupted base64         *)
(* segment, a field of the wrong byte length, a wrong host, a missing path  *)
(* segment or a missing fragment returns an Err; it never panics.           *)
C4_TamperRejection ==
    op = "try_from"
       /\ (urlKind.host # "domain"
           \/ urlKind.shape \in {"corrupt_base64", "wrong_length",
                                 "missing_segment", "missing_fragment"})
    => result.kind = "Err"

(* C5: the host check comes first.  try_from returns Err(InvalidHostDomain) *)
(* for every Url whose host is absent or is not the configured domain,      *)
(* whatever its path and fragment are, and never returns InvalidHostDomain  *)
(* for a Url whose host is the configured domain.                           *)
C5_HostCheckFirst ==
    op = "try_from" =>
        IF HostIsConfiguredDomain(url[1])
        THEN ~IsInvalidHostDomain(result)
        ELSE IsInvalidHostDomain(result)

C5_Witness ==
    /\ op = "try_from"
    /\ urlKind.host = "other"
    /\ urlKind.shape = "missing_segment"
    /\ IsInvalidHostDomain(result)

(* C6: unknown-flag rejection.  from_bits of a value with a bit outside the *)
(* eight defined flags fails (None), and try_from of a Url whose permission *)
(* component has such a bit returns an Err to the caller.                   *)
C6_UnknownFlagRejection ==
    /\ op = "from_bits" /\ arg.bits \div 256 # 0 => result.val = None
    /\ op = "try_from" /\ urlKind.shape = "unknown_flags" => result.kind = "Err"

(* C7: encoding shape.  The string of to_string has, after the two UUID     *)
(* path segments, the "#"-separated components key, permissions, signature  *)
(* when expires is None and key, permissions, expiry, signature when it is  *)
(* Some, in that order; the expiry component is there iff the link has one. *)
C7_EncodingShape ==
    op = "to_string" =>
        LET l == link[1]
            comps == Split(text, "#")
            head == comps[1]
            n == Len(head)
        IN  /\ Len(comps) = (IF l.expires = None THEN 1 + 3 ELSE 1 + 4)
            /\ n >= 4
            /\ head[n - 3].kind = "/"
            /\ head[n - 2].kind = "uuid" /\ head[n - 2].data = l.user_id
            /\ head[n - 1].kind = "/"
            /\ head[n].kind = "uuid" /\ head[n].data = l.bucket_id
            /\ IsBase64Of(comps[2], l.bucket_key)
            /\ IsBase64Of(comps[3], to_be_bytes(l.permission))
            /\ IF l.expires = None
               THEN IsBase64Of(comps[4], SigBytes(l.signature))
               ELSE /\ IsBase64Of(comps[4], Serialize(l.expires[1]))
                    /\ IsBase64Of(comps[5], SigBytes(l.signature))

C7_Witness ==
    /\ op = "to_string"
    /\ link[1].expires # None
    /\ Len(Split(text, "#")) = 5

(* C8: what is signed.  new, verify_signature and get_token hash exactly    *)
(* user_id (16 bytes), bucket_id (16), bucket_key (32), the permission bits *)
(* (4, big-endian) and, only when expires is Some, the serialized expiry,   *)
(* in that order; the signature is no input of the hash.                    *)
C8_WhatIsSigned ==
    op \in {"new", "verify_signature", "get_token"} =>
        LET f == IF op = "new" THEN arg ELSE link[1]
            base == UuidLen + UuidLen + KeyLen + PermLen
        IN  /\ Len(f.user_id) = UuidLen /\ Len(f.bucket_id) = UuidLen
            /\ Len(f.bucket_key) = KeyLen
            /\ Len(hashed) >= base
            /\ SubSeq(hashed, 1, UuidLen) = f.user_id
            /\ SubSeq(hashed, UuidLen + 1, 2 * UuidLen) = f.bucket_id
            /\ SubSeq(hashed, 2 * UuidLen + 1, 2 * UuidLen + KeyLen) = f.bucket_key
            /\ hashed[base - 3] * 16777216 + hashed[base - 2] * 65536
                   + hashed[base - 1] * 256 + hashed[base] = f.permission
            /\ IF f.expires = None
               THEN Len(hashed) = base
               ELSE SubSeq(hashed, base + 1, Len(hashed)) = Serialize(f.expires[1])
            /\ op # "new" =>
                   \A sk \in {0} \cup SecretKeys :
                       LET s == IF sk = 0 THEN Forged ELSE Sign(sk, <<>>, <<>>)
                           l2 == [link[1] EXCEPT !.signature = s]
                       IN  /\ get_token(l2).hashed = hashed
                           /\ \A pk \in PublicKeys :
                                  verify_signature(l2, pk).hashed = hashed

C8_Witness ==
    /\ op = "verify_signature"
    /\ link[1].expires # None
    /\ Len(hashed) = UuidLen + UuidLen + KeyLen + PermLen + BincodeLen

(* C9: token derivation.  get_token returns normally a 32-byte value, the   *)
(* first 32 bytes of the digest of the hashed fields.                       *)
C9_TokenDerivation ==
    op = "get_token" =>
        /\ result.kind = "Ok"
        /\ Len(result.val) = TokenLen
        /\ Len(Sha3_224(hashed)) >= TokenLen
        /\ result.val = SubSeq(Sha3_224(hashed), 1, TokenLen)

(* C10: reproducible signing.  Two calls of new with the same arguments     *)
(* both return a link, and the two signatures are equal.                    *)
C10_ReproducibleSigning ==
    op = "new" /\ first # None =>
        /\ first[1].kind = "Ok"
        /\ result.kind = "Ok"
        /\ result.val.signature = first[1].val.signature

(* C11: decode branches on the component count.  try_from of a well-formed  *)
(* Url with the configured host returns a link; whether it has an expiry is *)
(* decided by the number of '#'-delimited components after the path (three  *)
(* without, four with an expiry), the expiry is read from the component     *)
(* between permissions and signature, and the signature from the last one.  *)
C11_DecodeByComponentCount ==
    op = "try_from" /\ urlKind.host = "domain" /\ urlKind.shape = "wellformed" =>
        LET comps == Split(url[1].fragment[1], "#")
            n == Len(comps)
        IN  /\ n \in {3, 4}
            /\ result.kind = "Ok"
            /\ result.val.expires =
                   (IF n = 4 THEN Deserialize(Base64Decode(comps[3])[1]) ELSE None)
            /\ IsBase64Of(comps[n], SigBytes(result.val.signature))

(* C12: the buffer matches the digest.  In every call of                    *)
(* hash_secret_share_link made by new, verify_signature and get_token the   *)
(* output buffer is as long as the digest of the hashed fields, so the copy *)
(* of the digest into the buffer does not panic and the buffer then holds   *)
(* the digest.                                                              *)
C12_BufferMatchesDigest ==
    op \in {"new", "verify_signature", "get_token"} =>
        LET hash_output == Rep(HashOutputLen, 0)
            digest == Sha3_224(hashed)
        IN  /\ Len(hash_output) = Len(digest)
            /\ copy_from_slice(hash_output, digest) = Ok(digest)
            /\ ~(result.kind = "Panic" /\ result.line = 38)

(* C13: the plain ShareLink round trip.  try_from of the Url of a ShareLink *)
(* (the one try_into returned, or one laid out as to_string lays it out)    *)
(* reads the token from a segment that its split of the path holds, and     *)
(* returns normally a ShareLink with the same token.                        *)
C13_ShareLinkRoundTrip ==
    op = "share_try_from" /\ urlKind.shape \in {"encoded", "wellformed"} =>
        /\ Len(Take(Split(url[1].path, "/"), 1)) >= 2
        /\ result.kind = "Ok"
        /\ Len(result.val.token) = TokenLen
        /\ result.val.token = share[1].token

====
